---- MODULE Spec2Model ----
(***************************************************************************)
(* Model of the tap registry of python-test/features/steps/taps.py         *)
(* (class Taps).  The registry self.taps is a Python dict from tap name to *)
(* a tap entry; an entry is a dict with the fields "input_type", "config", *)
(* "filter" and, once a tag was added, "tags".  Dicts are modelled as      *)
(* functions with a finite domain of strings.  Every method of Taps is an  *)
(* operator from the registry and the arguments to the registry left       *)
(* behind and the exception raised, and an action that applies it.         *)
(***************************************************************************)
EXTENDS Integers, Sequences, FiniteSets, TLC

\* taps      : self.taps, the registry
\* prev      : the registry before the last call
\* last      : the last call: method, name argument, keyword or tag mapping,
\*             key list, and the exception it raised ("none" when it returned)
\* calls     : number of calls made so far
\* storeNull : how UtilsManager.update_object_with_filters_and_configs treats
\*             a pair whose value is None: stored as an explicit null entry
\*             (TRUE) or left out (FALSE).  The helper is outside this file and
\*             its description allows both, so the value is chosen at
\*             construction and fixed.
\* The attributes add_pcap, add_flow and add_dnstap leave on self (self.name,
\* self.pcap_file, ...) are read by nothing else and are not part of the
\* state; json() reads the registry and changes nothing.
VARIABLES taps, prev, last, calls, storeNull

vars == <<taps, prev, last, calls, storeNull>>

\* Number of method calls made on one registry (one test scenario).
MaxCalls == 4

----------------------------------------------------------------------------
\* Python values

None == "None"

EmptyMap == [x \in {} |-> None]

\* d.update(e)
DictUpdate(d, e) ==
    [k \in DOMAIN d \cup DOMAIN e |-> IF k \in DOMAIN e THEN e[k] ELSE d[k]]

\* d.pop(k, None)
DictPop(d, k) == [x \in DOMAIN d \ {k} |-> d[x]]

\* d[k] = v
DictSet(d, k, v) == [x \in DOMAIN d \cup {k} |-> IF x = k THEN v ELSE d[x]]

\* kwargs.get(k)
KwGet(kwargs, k) == IF k \in DOMAIN kwargs THEN kwargs[k] ELSE None

\* the singleton dict {k: kwargs.get(k)}
Single(kwargs, k) == [x \in {k} |-> KwGet(kwargs, k)]

\* What a method leaves behind: the registry and the exception raised.
Ok(t) == [taps |-> t, err |-> "none"]

Raise(t, e) == [taps |-> t, err |-> e]

----------------------------------------------------------------------------
\* UtilsManager (utils.py): the key-merge helpers the registry calls.

RECURSIVE MergePairs(_, _, _)
\* merge a list of singleton dicts into a map; sn: a missing keyword value
\* (None) is stored as an explicit null entry, otherwise it is left out
MergePairs(m, list, sn) ==
    IF list = <<>> THEN m
    ELSE LET pair == Head(list)
             k == CHOOSE x \in DOMAIN pair : TRUE
         IN MergePairs(IF pair[k] = None /\ ~sn THEN m ELSE DictUpdate(m, pair),
                       Tail(list), sn)

update_object_with_filters_and_configs(tap, name, configs_list, filters_list, sn) ==
    LET e == tap[name]
        e1 == DictSet(e, "config", MergePairs(e["config"], configs_list, sn))
        e2 == DictSet(e1, "filter", MergePairs(e1["filter"], filters_list, sn))
    IN DictSet(tap, name, e2)

UtilsManager_add_configs(config_object, kwargs) == DictUpdate(config_object, kwargs)

UtilsManager_add_filters(filter_object, kwargs) == DictUpdate(filter_object, kwargs)

RECURSIVE PopAll(_, _)
PopAll(m, args) ==
    IF args = <<>> THEN m ELSE PopAll(DictPop(m, Head(args)), Tail(args))

UtilsManager_remove_configs(config_object, args) == PopAll(config_object, args)

UtilsManager_remove_filters(filter_object, args) == PopAll(filter_object, args)

----------------------------------------------------------------------------
\* class Taps

\* __build_tap, with an entry merged into the one already registered
build_tap_merge(t, name, input_type, configs_list, filters_list, sn) ==
    LET old == IF name \in DOMAIN t THEN t[name] ELSE EmptyMap
        base == DictUpdate(old, [input_type |-> input_type])
        withc == IF "config" \in DOMAIN base THEN base
                 ELSE DictSet(base, "config", EmptyMap)
        withf == IF "filter" \in DOMAIN withc THEN withc
                 ELSE DictSet(withc, "filter", EmptyMap)
        tap == [n \in {name} |-> withf]
    IN DictUpdate(t, update_object_with_filters_and_configs(
                         tap, name, configs_list, filters_list, sn))

\* __build_tap
build_tap(t, name, input_type, configs_list, filters_list, sn) ==
    LET tap == [n \in {name} |->
                   [input_type |-> input_type, config |-> EmptyMap, filter |-> EmptyMap]]
    IN DictUpdate(t, update_object_with_filters_and_configs(
                         tap, name, configs_list, filters_list, sn))

\* add_pcap with the bpf pair listed among the configs
add_pcap_bpfInConfigs(t, name, kwargs, sn) ==
    LET pcap_configs == << Single(kwargs, "pcap_file"), Single(kwargs, "pcap_source"),
                           Single(kwargs, "iface"), Single(kwargs, "host_spec"),
                           Single(kwargs, "debug"), Single(kwargs, "bpf") >>
        pcap_filters == << >>
    IN Ok(build_tap(t, name, "pcap", pcap_configs, pcap_filters, sn))

add_pcap(t, name, kwargs, sn) ==
    LET pcap_configs == << Single(kwargs, "pcap_file"), Single(kwargs, "pcap_source"),
                           Single(kwargs, "iface"), Single(kwargs, "host_spec"),
                           Single(kwargs, "debug") >>
        pcap_filters == << Single(kwargs, "bpf") >>
    IN Ok(build_tap(t, name, "pcap", pcap_configs, pcap_filters, sn))

add_flow(t, name, kwargs, sn) ==
    LET flow_configs == << Single(kwargs, "pcap_file"), Single(kwargs, "port"),
                           Single(kwargs, "bind"), Single(kwargs, "flow_type") >>
        flow_filters == << >>
    IN Ok(build_tap(t, name, "flow", flow_configs, flow_filters, sn))

add_dnstap(t, name, kwargs, sn) ==
    LET dnstap_configs == << Single(kwargs, "dnstap_file"), Single(kwargs, "socket"),
                             Single(kwargs, "tcp") >>
        dnstap_filters == << Single(kwargs, "only_hosts") >>
    IN Ok(build_tap(t, name, "dnstap", dnstap_configs, dnstap_filters, sn))

add_configs(t, name, kwargs) ==
    IF name \notin DOMAIN t THEN Raise(t, "KeyError")
    ELSE LET e == IF "config" \notin DOMAIN t[name]
                  THEN DictUpdate(t[name], [config |-> EmptyMap])
                  ELSE t[name]
             e1 == DictSet(e, "config", UtilsManager_add_configs(e["config"], kwargs))
         IN Ok(DictSet(t, name, e1))

add_filters(t, name, kwargs) ==
    IF name \notin DOMAIN t THEN Raise(t, "KeyError")
    ELSE LET e == IF "filter" \notin DOMAIN t[name]
                  THEN DictUpdate(t[name], [filter |-> EmptyMap])
                  ELSE t[name]
             e1 == DictSet(e, "filter", UtilsManager_add_filters(e["filter"], kwargs))
         IN Ok(DictSet(t, name, e1))

\* the body of add_tag's inner loop, without the else branch
add_tag_pair_noCreate(e, tag_key, tag_value) ==
    IF "tags" \in DOMAIN e
    THEN DictSet(e, "tags", DictUpdate(e["tags"], [x \in {tag_key} |-> tag_value]))
    ELSE e

\* the body of add_tag's inner loop
add_tag_pair(e, tag_key, tag_value) ==
    IF "tags" \in DOMAIN e
    THEN DictSet(e, "tags", DictUpdate(e["tags"], [x \in {tag_key} |-> tag_value]))
    ELSE DictUpdate(e, [tags |-> [x \in {tag_key} |-> tag_value]])

RECURSIVE add_tag_items(_, _, _)
\* for tag_key, tag_value in tags.items(), over the keys still to visit
add_tag_items(e, tags, todo) ==
    IF todo = {} THEN e
    ELSE LET k == CHOOSE x \in todo : TRUE
         IN add_tag_items(add_tag_pair(e, k, tags[k]), tags, todo \ {k})

add_tag(t, tap_name, tags) ==
    IF ~(tap_name \in DOMAIN t \/ tap_name = "all") THEN Raise(t, "AssertionError")
    ELSE LET tap_names == IF tap_name = "all" THEN DOMAIN t ELSE {tap_name}
         IN Ok([n \in DOMAIN t |->
                   IF n \in tap_names THEN add_tag_items(t[n], tags, DOMAIN tags)
                   ELSE t[n]])

\* remove_tap with the membership test copied from add_tag
remove_tap_anyOfAll(t, name) ==
    IF ~(name \in DOMAIN t \/ name = "all") THEN Raise(t, "AssertionError")
    ELSE IF name \notin DOMAIN t THEN Raise(t, "KeyError")
    ELSE Ok(DictPop(t, name))

\* remove_tap with the assertion after the pop
remove_tap_assertAfterPop(t, name) ==
    LET t1 == DictPop(t, name)
    IN IF name \notin DOMAIN t1 THEN Raise(t1, "AssertionError") ELSE Ok(t1)

remove_tap(t, name) ==
    IF name \notin DOMAIN t THEN Raise(t, "AssertionError")
    ELSE Ok(DictPop(t, name))

remove_configs(t, name, args) ==
    IF name \notin DOMAIN t THEN Raise(t, "AssertionError")
    ELSE IF "config" \notin DOMAIN t[name] THEN Raise(t, "KeyError")
    ELSE Ok(DictSet(t, name,
               DictSet(t[name], "config",
                       UtilsManager_remove_configs(t[name]["config"], args))))

remove_filter(t, name, args) ==
    IF name \notin DOMAIN t THEN Raise(t, "AssertionError")
    ELSE IF "filter" \notin DOMAIN t[name] THEN Raise(t, "KeyError")
    ELSE Ok(DictSet(t, name,
               DictSet(t[name], "filter",
                       UtilsManager_remove_filters(t[name]["filter"], args))))

\* the body of remove_tag's inner loop
remove_tag_key(e, tag_key) ==
    IF "tags" \in DOMAIN e THEN DictPop(e, tag_key) ELSE e

RECURSIVE remove_tag_keys(_, _)
\* for tag_key in tags_keys
remove_tag_keys(e, tags_keys) ==
    IF tags_keys = <<>> THEN e
    ELSE remove_tag_keys(remove_tag_key(e, Head(tags_keys)), Tail(tags_keys))

remove_tag(t, tap_name, tags_keys) ==
    IF ~(tap_name \in DOMAIN t \/ tap_name = "all") THEN Raise(t, "AssertionError")
    ELSE LET tap_names == IF tap_name = "all" THEN DOMAIN t ELSE {tap_name}
         IN Ok([n \in DOMAIN t |->
                   IF n \in tap_names THEN remove_tag_keys(t[n], tags_keys)
                   ELSE t[n]])

----------------------------------------------------------------------------
\* The calls a scenario makes

Names == {"t1", "all"}

AddKwargs ==
    { [pcap_file |-> "a.pcap", bpf |-> "tcp", bogus |-> "x"],
      [tcp |-> "127.0.0.1", only_hosts |-> "10.0.0.0/8", port |-> "2055"] }

ConfigKwargs == { [bind |-> "0.0.0.0", pcap_file |-> "b.pcap"] }

FilterKwargs == { [bpf |-> "udp"] }

TagArgs == { EmptyMap, [a |-> "x"], [a |-> "y", b |-> "y"] }

ConfigKeyArgs == { <<"pcap_file", "absent">> }

FilterKeyArgs == { <<"bpf", "absent">> }

TagKeyArgs == { <<"a">>, <<"config">>, <<"input_type">>, <<"tags">> }

Call(op, name, kwargs, keys, res) ==
    /\ calls < MaxCalls
    /\ taps' = res.taps
    /\ prev' = taps
    /\ last' = [op |-> op, name |-> name, kwargs |-> kwargs, keys |-> keys,
                err |-> res.err]
    /\ calls' = calls + 1
    /\ UNCHANGED storeNull

Init ==
    /\ taps = EmptyMap
    /\ prev = EmptyMap
    /\ last = [op |-> "init", name |-> "", kwargs |-> EmptyMap, keys |-> <<>>,
               err |-> "none"]
    /\ calls = 0
    /\ storeNull \in BOOLEAN

AddPcap ==
    \E name \in Names, kwargs \in AddKwargs :
        Call("add_pcap", name, kwargs, <<>>, add_pcap(taps, name, kwargs, storeNull))

AddFlow ==
    \E name \in Names, kwargs \in AddKwargs :
        Call("add_flow", name, kwargs, <<>>, add_flow(taps, name, kwargs, storeNull))

AddDnstap ==
    \E name \in Names, kwargs \in AddKwargs :
        Call("add_dnstap", name, kwargs, <<>>, add_dnstap(taps, name, kwargs, storeNull))

AddConfigs ==
    \E name \in Names, kwargs \in ConfigKwargs :
        Call("add_configs", name, kwargs, <<>>, add_configs(taps, name, kwargs))

AddFilters ==
    \E name \in Names, kwargs \in FilterKwargs :
        Call("add_filters", name, kwargs, <<>>, add_filters(taps, name, kwargs))

AddTag ==
    \E tap_name \in Names, tags \in TagArgs :
        Call("add_tag", tap_name, tags, <<>>, add_tag(taps, tap_name, tags))

RemoveTap ==
    \E name \in Names :
        Call("remove_tap", name, EmptyMap, <<>>, remove_tap(taps, name))

RemoveConfigs ==
    \E name \in Names, args \in ConfigKeyArgs :
        Call("remove_configs", name, EmptyMap, args, remove_configs(taps, name, args))

RemoveFilter ==
    \E name \in Names, args \in FilterKeyArgs :
        Call("remove_filter", name, EmptyMap, args, remove_filter(taps, name, args))

RemoveTag ==
    \E tap_name \in Names, tags_keys \in TagKeyArgs :
        Call("remove_tag", tap_name, EmptyMap, tags_keys,
             remove_tag(taps, tap_name, tags_keys))

Next ==
    \/ AddPcap
    \/ AddFlow
    \/ AddDnstap
    \/ AddConfigs
    \/ AddFilters
    \/ AddTag
    \/ RemoveTap
    \/ RemoveConfigs
    \/ RemoveFilter
    \/ RemoveTag

Spec == Init /\ [][Next]_vars

----------------------------------------------------------------------------
\* Vocabulary of the properties

AddOps == {"add_pcap", "add_flow", "add_dnstap"}

Label(op) ==
    CASE op = "add_pcap" -> "pcap"
      [] op = "add_flow" -> "flow"
      [] op = "add_dnstap" -> "dnstap"

Failures == {"AssertionError", "KeyError"}

HasTags(e) == "tags" \in DOMAIN e

TagsOf(e) == IF HasTags(e) THEN e["tags"] ELSE EmptyMap

KeySet(keys) == {keys[i] : i \in 1..Len(keys)}

\* the call made by this step targets tap n
Targets(call, n) == call.name = n \/ call.name = "all"

\* the registry the same add call builds when nothing is registered
FreshAdd(op, name, kwargs, sn) ==
    CASE op = "add_pcap" -> add_pcap(EmptyMap, name, kwargs, sn).taps[name]
      [] op = "add_flow" -> add_flow(EmptyMap, name, kwargs, sn).taps[name]
      [] op = "add_dnstap" -> add_dnstap(EmptyMap, name, kwargs, sn).taps[name]

----------------------------------------------------------------------------
\* C1: for a registered tap n and a tag key k not among n's tags, add_tag(n,
\* {k: v}) followed by remove_tag(n, [k]) leaves n's tags without k and every
\* other tag of n as it was before the add_tag.
C1_TagRoundTrip ==
    [][ \A k \in DOMAIN last.kwargs :
          ( /\ last.op = "add_tag"
            /\ last.err = "none"
            /\ last.name \in DOMAIN prev
            /\ DOMAIN last.kwargs = {k}
            /\ k \notin DOMAIN TagsOf(prev[last.name])
            /\ last'.op = "remove_tag"
            /\ last'.name = last.name
            /\ last'.keys = <<k>> )
          => /\ last'.err = "none"
             /\ last.name \in DOMAIN taps'
             /\ k \notin DOMAIN TagsOf(taps'[last.name])
             /\ DOMAIN TagsOf(taps'[last.name]) = DOMAIN TagsOf(prev[last.name])
             /\ \A j \in DOMAIN TagsOf(prev[last.name]) :
                    TagsOf(taps'[last.name])[j] = TagsOf(prev[last.name])[j]
      ]_vars

\* C2: every registered tap has an input_type, the label of the add operation
\* that created the entry; no config, filter or tag operation changes or
\* removes it.
C2_InputTypeFixed ==
    [][ \A n \in DOMAIN taps' :
          IF last'.op \in AddOps /\ last'.name = n
          THEN /\ "input_type" \in DOMAIN taps'[n]
               /\ taps'[n]["input_type"] = Label(last'.op)
          ELSE (n \in DOMAIN taps /\ "input_type" \in DOMAIN taps[n])
               => /\ "input_type" \in DOMAIN taps'[n]
                  /\ taps'[n]["input_type"] = taps[n]["input_type"]
      ]_vars

\* C3: an add operation on a registered name replaces the entry: the new
\* entry is the one the same call builds on a registry without the name, all
\* its config and filter values come from this call's keyword arguments, it
\* has no tags map, and the registry keeps one entry per name.
C3_OverwriteReplaces ==
    [][ (last'.op \in AddOps /\ last'.name \in DOMAIN taps)
        => /\ last'.err = "none"
           /\ DOMAIN taps' = DOMAIN taps
           /\ taps'[last'.name] =
                  FreshAdd(last'.op, last'.name, last'.kwargs, storeNull)
           /\ DOMAIN taps'[last'.name] = {"input_type", "config", "filter"}
           /\ \A k \in DOMAIN taps'[last'.name]["config"] :
                  taps'[last'.name]["config"][k] = KwGet(last'.kwargs, k)
           /\ \A k \in DOMAIN taps'[last'.name]["filter"] :
                  taps'[last'.name]["filter"][k] = KwGet(last'.kwargs, k)
      ]_vars

C3_Witness ==
    /\ last.op \in AddOps
    /\ last.name \in DOMAIN prev
    /\ HasTags(prev[last.name])
    /\ "config" \in DOMAIN prev[last.name]
    /\ "bind" \in DOMAIN prev[last.name]["config"]
    /\ ~HasTags(taps[last.name])
    /\ "bind" \notin DOMAIN taps[last.name]["config"]

\* C4: add_tag("all", tags) sets every pair of tags on every tap registered at
\* the call, creating the tags map where absent and overwriting a present
\* value; an entry built by an add operation carries no tag, and a tap gains
\* a tag key only by an add_tag that targets it with that key.
C4_TagAll ==
    [][ /\ (last'.op = "add_tag" /\ last'.name = "all")
           => /\ last'.err = "none"
              /\ DOMAIN taps' = DOMAIN taps
              /\ \A n \in DOMAIN taps : \A k \in DOMAIN last'.kwargs :
                    /\ HasTags(taps'[n])
                    /\ k \in DOMAIN taps'[n]["tags"]
                    /\ taps'[n]["tags"][k] = last'.kwargs[k]
        /\ (last'.op \in AddOps) => ~HasTags(taps'[last'.name])
        /\ \A n \in DOMAIN taps' : \A k \in DOMAIN TagsOf(taps'[n]) :
              (n \notin DOMAIN taps \/ k \notin DOMAIN TagsOf(taps[n]))
              => /\ last'.op = "add_tag"
                 /\ Targets(last', n)
                 /\ k \in DOMAIN last'.kwargs
      ]_vars

C4_Witness ==
    /\ last.op = "add_tag"
    /\ last.name = "all"
    /\ last.err = "none"
    /\ DOMAIN last.kwargs = {"a", "b"}
    /\ Cardinality(DOMAIN prev) = 2
    /\ \E n \in DOMAIN prev : ~HasTags(prev[n]) /\ HasTags(taps[n])
    /\ \E n \in DOMAIN prev :
          /\ HasTags(prev[n])
          /\ "a" \in DOMAIN prev[n]["tags"]
          /\ prev[n]["tags"]["a"] # last.kwargs["a"]
          /\ taps[n]["tags"]["a"] = last.kwargs["a"]

\* C5: a call that ends in an assertion failure or a lookup error leaves the
\* registry as it was; add_configs and add_filters on an unregistered name
\* raise a lookup error, add_tag and remove_tag with a name that is neither
\* registered nor "all" fail.
C5_FailureLeavesRegistry ==
    [][ /\ last'.err # "none" => (last'.err \in Failures /\ taps' = taps)
        /\ (last'.op \in {"add_configs", "add_filters"} /\ last'.name \notin DOMAIN taps)
           => (last'.err = "KeyError" /\ taps' = taps)
        /\ ( /\ last'.op \in {"add_tag", "remove_tag"}
             /\ last'.name \notin DOMAIN taps
             /\ last'.name # "all" )
           => (last'.err = "AssertionError" /\ taps' = taps)
      ]_vars

C5_Witness ==
    /\ last.op \in {"add_configs", "add_tag"}
    /\ last.err # "none"
    /\ last.name \notin DOMAIN prev
    /\ prev # EmptyMap
    /\ taps = prev

\* C6 as first stated: remove_tap fails with the assertion on an unregistered
\* name and leaves the registry alone; on a registered name it deletes that
\* entry only, and the next remove_tap, remove_configs, remove_filter,
\* add_configs, add_filters, add_tag or remove_tag on that name fails.
C6_RemoveTapThenAnyFails ==
    [][ /\ last'.op = "remove_tap"
           => IF last'.name \notin DOMAIN taps
              THEN last'.err = "AssertionError" /\ taps' = taps
              ELSE /\ last'.err = "none"
                   /\ DOMAIN taps' = DOMAIN taps \ {last'.name}
                   /\ \A m \in DOMAIN taps' : taps'[m] = taps[m]
        /\ ( /\ last.op = "remove_tap"
             /\ last.err = "none"
             /\ last'.name = last.name
             /\ last'.op \in {"remove_tap", "remove_configs", "remove_filter",
                              "add_configs", "add_filters", "add_tag", "remove_tag"} )
           => (last'.err \in Failures /\ taps' = taps)
      ]_vars

\* C6, amended: as above, except that add_tag and remove_tag fail after the
\* removal only for a name other than "all"; with the name "all" they take
\* the every-tap path and succeed.
C6_RemoveTap ==
    [][ /\ last'.op = "remove_tap"
           => IF last'.name \notin DOMAIN taps
              THEN last'.err = "AssertionError" /\ taps' = taps
              ELSE /\ last'.err = "none"
                   /\ DOMAIN taps' = DOMAIN taps \ {last'.name}
                   /\ \A m \in DOMAIN taps' : taps'[m] = taps[m]
        /\ ( /\ last.op = "remove_tap"
             /\ last.err = "none"
             /\ last'.name = last.name
             /\ \/ last'.op \in {"remove_tap", "remove_configs", "remove_filter",
                                 "add_configs", "add_filters"}
                \/ (last'.op \in {"add_tag", "remove_tag"} /\ last'.name # "all") )
           => (last'.err \in Failures /\ taps' = taps)
        /\ ( /\ last.op = "remove_tap"
             /\ last.err = "none"
             /\ last'.name = last.name
             /\ last'.op \in {"add_tag", "remove_tag"}
             /\ last'.name = "all" )
           => last'.err = "none"
      ]_vars

C6_Witness ==
    /\ last.op = "remove_tap"
    /\ last.err = "none"
    /\ last.name \in DOMAIN prev
    /\ last.name \notin DOMAIN taps
    /\ Cardinality(DOMAIN prev) = 2
    /\ Cardinality(DOMAIN taps) = 1

\* C7: an entry has no tags field from its creation until an add_tag with at
\* least one pair targets it, and an entry that has a tags field keeps it
\* until remove_tap deletes the entry or an add operation replaces it.
C7_TagsLifetime ==
    [][ \A n \in DOMAIN taps' :
          IF last'.op \in AddOps /\ last'.name = n
          THEN ~HasTags(taps'[n])
          ELSE n \in DOMAIN taps
               => /\ (~HasTags(taps[n]) /\ HasTags(taps'[n]))
                     => /\ last'.op = "add_tag"
                        /\ Targets(last', n)
                        /\ last'.kwargs # EmptyMap
                  /\ HasTags(taps[n]) => HasTags(taps'[n])
      ]_vars

\* C8: remove_configs and remove_filter fail only on an unregistered name; on
\* a registered name the call succeeds, none of the named keys is left in the
\* config (filter) map and every other key keeps its value.
C8_RemoveKeys ==
    [][ \A f \in {"config", "filter"} :
          ( /\ last'.op = (IF f = "config" THEN "remove_configs" ELSE "remove_filter")
            /\ last'.name \in DOMAIN taps )
          => /\ last'.err = "none"
             /\ last'.name \in DOMAIN taps'
             /\ f \in DOMAIN taps'[last'.name]
             /\ KeySet(last'.keys) \cap DOMAIN taps'[last'.name][f] = {}
             /\ f \in DOMAIN taps[last'.name]
             /\ \A j \in DOMAIN taps[last'.name][f] \ KeySet(last'.keys) :
                   /\ j \in DOMAIN taps'[last'.name][f]
                   /\ taps'[last'.name][f][j] = taps[last'.name][f][j]
      ]_vars

\* C9: right after an add operation the config keys of the new entry are among
\* the variant's config keys and its filter keys among the variant's filter
\* keys; a keyword outside the variant's list is stored nowhere and raises
\* nothing.
C9_ConfigKeys(op) ==
    CASE op = "add_pcap" -> {"pcap_file", "pcap_source", "iface", "host_spec", "debug"}
      [] op = "add_flow" -> {"pcap_file", "port", "bind", "flow_type"}
      [] op = "add_dnstap" -> {"dnstap_file", "socket", "tcp"}

C9_FilterKeys(op) ==
    CASE op = "add_pcap" -> {"bpf"}
      [] op = "add_flow" -> {}
      [] op = "add_dnstap" -> {"only_hosts"}

C9_RecognizedKeys ==
    [][ last'.op \in AddOps
        => /\ last'.err = "none"
           /\ last'.name \in DOMAIN taps'
           /\ DOMAIN taps'[last'.name] = {"input_type", "config", "filter"}
           /\ DOMAIN taps'[last'.name]["config"] \subseteq C9_ConfigKeys(last'.op)
           /\ DOMAIN taps'[last'.name]["filter"] \subseteq C9_FilterKeys(last'.op)
           /\ \A k \in DOMAIN last'.kwargs :
                 /\ k \notin C9_ConfigKeys(last'.op)
                    => k \notin DOMAIN taps'[last'.name]["config"]
                 /\ k \notin C9_FilterKeys(last'.op)
                    => k \notin DOMAIN taps'[last'.name]["filter"]
      ]_vars

C9_Witness ==
    /\ last.op = "add_pcap"
    /\ last.err = "none"
    /\ {"bogus", "bpf", "pcap_file"} \subseteq DOMAIN last.kwargs
    /\ DOMAIN taps[last.name]["filter"] = {"bpf"}
    /\ "pcap_file" \in DOMAIN taps[last.name]["config"]
    /\ "bpf" \notin DOMAIN taps[last.name]["config"]

\* C10: a call with a registered tap name n leaves the entry of every other
\* registered tap unchanged, also when n is the string "all"; add_tag and
\* remove_tag leave input_type, config and filter of the target present and
\* unchanged.
C10_SingleTargetFrame ==
    [][ last'.name \in DOMAIN taps
        => /\ \A m \in DOMAIN taps \ {last'.name} :
                 m \in DOMAIN taps' /\ taps'[m] = taps[m]
           /\ last'.op \in {"add_tag", "remove_tag"}
              => \A f \in {"input_type", "config", "filter"} :
                    f \in DOMAIN taps[last'.name]
                    => /\ last'.name \in DOMAIN taps'
                       /\ f \in DOMAIN taps'[last'.name]
                       /\ taps'[last'.name][f] = taps[last'.name][f]
      ]_vars

====
